---------------------------- MODULE Spec2Model ----------------------------
(***************************************************************************)
(* A model of the web-blog server: process startup (main.go), the id       *)
(* allocator findUniqueArticleId (main.go), the /app/edit handler          *)
(* (handleAppEdit, createNewOrUpdatePost) and the cache of temporary       *)
(* allocations (temp_alloc.c).                                             *)
(*                                                                         *)
(* Go strings are sequences of one-character strings, so that TrimSpace,   *)
(* len and comparisons are computed and not assumed.  A *string is a       *)
(* sequence of length 0 (nil) or 1 (a pointer to the string).              *)
(***************************************************************************)
EXTENDS Integers, Sequences, FiniteSets, TLC

VARIABLES
    \* ---- process startup (main.go) ----
    mainPc,             \* position of main()
    inProduction,       \* -production flag
    newArticleTitle,    \* -newarticle flag
    config,             \* the config struct filled by readConfig
    backupLoopStarted,  \* the goroutine "go BackupLoop(backupConfig)" exists
    uploads,            \* backup cycles run by BackupLoop
    loadedArticles,     \* store.articles as loaded by NewStore() in genNewArticle
    newId,              \* the id genNewArticle got (0: none yet)
    \* ---- the store and the /app/edit handler ----
    heap,               \* Article objects by address
    storeArticles,      \* store.articles: addresses, in insertion order
    disk,               \* the persisted record of each article id
    nWrites,            \* number of records persisted so far
    nTexts,             \* number of Text blobs created so far
    articlesCache,      \* the articles index
    clock,              \* time.Now()
    pc,                 \* position of each request's handler
    req,                \* the *http.Request of each handler
    article,            \* local "article" of each handler (an address, 0: nil)
    text,               \* local "text" of each handler (0: none)
    versionsRead,       \* the slice header read by append() before it is stored
    response,           \* what was written to the http.ResponseWriter
    calls,              \* calls each handler made to the store and the cache
    before,             \* history: the article as GetArticleById returned it
    persistedAt,        \* history: nWrites right after the handler's own write
    handled,            \* requests received so far
    \* ---- the cache of temporary allocations (temp_alloc.c) ----
    ndebug,             \* the build defines NDEBUG: assert() expands to nothing
    tempPc,             \* "running", "aborted" (assert failed), "undefined"
    slots,              \* written entries of keys_start[] and allocs_info[]
    keysLen,            \* keys_end - keys_start
    keys_alloced,
    total_alloced,
    total_allocs,
    allocs_from_cache,
    blocks,             \* blocks malloc() returned that were not freed
    ret,                \* return value of the last temp_alloc/temp_realloc
    keyOut,             \* what the last temp_alloc/temp_realloc stored in *key
    copied,             \* bytes the last temp_alloc/temp_realloc memcpy'd
    assertion,          \* last assert(total_alloced >= size): none/held/failed
    nCalls              \* calls made so far

mainVars == <<mainPc, inProduction, newArticleTitle, config, backupLoopStarted,
              uploads, loadedArticles, newId>>
storeVars == <<heap, storeArticles, disk, nWrites, nTexts, articlesCache>>
reqVars == <<pc, req, article, text, versionsRead, response, calls, before,
             persistedAt>>
webVars == <<heap, storeArticles, disk, nWrites, nTexts, articlesCache, clock,
             pc, req, article, text, versionsRead, response, calls, before,
             persistedAt, handled>>
tempVars == <<ndebug, tempPc, slots, keysLen, keys_alloced, total_alloced,
              total_allocs, allocs_from_cache, blocks, ret, keyOut, copied,
              assertion, nCalls>>
vars == <<mainVars, webVars, tempVars>>

----------------------------------------------------------------------------
(* Bounds *)

\* longest store.articles list NewStore() hands to genNewArticle
MaxStoreLen == 3
\* largest article id in that list
MaxArticleId == 4
\* backup cycles observed
MaxUploads == 2
\* requests received by the server in one run
MaxRequests == 2
\* calls made to the cache of temporary allocations in one run
MaxTempCalls == 4
\* largest size asked of temp_alloc and temp_realloc
MaxSize == 3
\* allocation points (distinct values of key)
NumKeys == 2

----------------------------------------------------------------------------
(* Strings *)

Range(s) == {s[i] : i \in 1..Len(s)}

\* unicode.IsSpace, on the characters the model uses
IsSpace(c) == c \in {" ", "\t", "\n", "\r"}

RECURSIVE TrimLeft(_)
TrimLeft(s) ==
    IF Len(s) > 0 /\ IsSpace(s[1]) THEN TrimLeft(Tail(s)) ELSE s

RECURSIVE TrimRight(_)
TrimRight(s) ==
    IF Len(s) > 0 /\ IsSpace(s[Len(s)])
      THEN TrimRight(SubSeq(s, 1, Len(s) - 1))
      ELSE s

\* strings.TrimSpace
TrimSpace(s) == TrimRight(TrimLeft(s))

\* *string: nil, or a pointer to a string
NilStr == <<>>
PtrTo(s) == <<s>>

\* StringEmpty: s == nil || 0 == len(*s)
StringEmpty(s) == s = NilStr \/ 0 = Len(s[1])

----------------------------------------------------------------------------
(* findUniqueArticleId *)

\* sort.Ints: insert x into the sorted sequence s
RECURSIVE InsertSorted(_, _)
InsertSorted(x, s) ==
    IF Len(s) = 0 THEN <<x>>
    ELSE IF x <= s[1] THEN <<x>> \o s
    ELSE <<s[1]>> \o InsertSorted(x, Tail(s))

RECURSIVE SortInts(_)
SortInts(s) ==
    IF Len(s) = 0 THEN <<>> ELSE InsertSorted(s[1], SortInts(Tail(s)))

\* the loop of findUniqueArticleId, at index i (1-based) with prevId
RECURSIVE ScanIds(_, _, _)
ScanIds(ids, i, prevId) ==
    IF i > Len(ids) THEN prevId + 1
    ELSE IF ids[i] # prevId + 1 THEN prevId + 1
    ELSE ScanIds(ids, i + 1, ids[i])

findUniqueArticleId(articles) ==
    LET ids == [i \in 1..Len(articles) |-> articles[i].Id]
    IN  IF Len(ids) = 0 THEN 1
        ELSE LET sorted == SortInts(ids)
             IN  ScanIds(sorted, 2, sorted[1])

----------------------------------------------------------------------------
(* Process startup: main() *)

\* the zero value of the config struct (main.go, var config)
EmptyConfig ==
    [CookieAuthKeyHexStr |-> NilStr, CookieEncrKeyHexStr |-> NilStr,
     AwsAccess |-> NilStr, AwsSecret |-> NilStr,
     S3BackupBucket |-> NilStr, S3BackupDir |-> NilStr]

\* what config.json can leave in a *string field: absent, empty, set
FieldValues == {NilStr, PtrTo(<<>>), PtrTo(<<"x">>)}
\* a hex key in config.json: absent, not hex, hex
KeyValues == {NilStr, PtrTo(<<"z", "z">>), PtrTo(<<"a", "b">>)}

ConfigFiles ==
    [CookieAuthKeyHexStr : KeyValues, CookieEncrKeyHexStr : KeyValues,
     AwsAccess : FieldValues, AwsSecret : FieldValues,
     S3BackupBucket : FieldValues, S3BackupDir : FieldValues]

\* the lists of article ids NewStore() can load
IdLists ==
    UNION {[1..n -> 1..MaxArticleId] : n \in 0..MaxStoreLen}

\* hex.DecodeString succeeds
HexValid(s) ==
    /\ Len(s) % 2 = 0
    /\ \A i \in 1..Len(s) :
         s[i] \in {"0", "1", "2", "3", "4", "5", "6", "7", "8", "9",
                   "a", "b", "c", "d", "e", "f",
                   "A", "B", "C", "D", "E", "F"}

S3BackupEnabled ==
    IF ~inProduction THEN FALSE
    ELSE IF StringEmpty(config.AwsAccess) THEN FALSE
    ELSE IF StringEmpty(config.AwsSecret) THEN FALSE
    ELSE IF StringEmpty(config.S3BackupBucket) THEN FALSE
    ELSE IF StringEmpty(config.S3BackupDir) THEN FALSE
    ELSE TRUE

\* main, lines 389-395: the flags are parsed; -newarticle branches off
parseCmdLineArgs ==
    /\ mainPc = "start"
    /\ \E prod \in BOOLEAN, title \in {<<>>, <<"t">>} :
         /\ inProduction' = prod
         /\ newArticleTitle' = title
         /\ mainPc' = IF title # <<>> THEN "genNewArticle" ELSE "readConfig"
    /\ UNCHANGED <<config, backupLoopStarted, uploads, loadedArticles, newId>>
    /\ UNCHANGED <<webVars, tempVars>>

\* genNewArticle: NewStore() loads the articles, a new id is picked
genNewArticle ==
    /\ mainPc = "genNewArticle"
    /\ \/ /\ mainPc' = "fatal"            \* NewStore() failed: log.Fatalf
          /\ UNCHANGED <<loadedArticles, newId>>
       \/ \E ids \in IdLists :
            LET articles == [i \in 1..Len(ids) |-> [Id |-> ids[i]]]
            IN  /\ loadedArticles' = articles
                /\ newId' = findUniqueArticleId(articles)
                /\ mainPc' = "exited"
    /\ UNCHANGED <<inProduction, newArticleTitle, config, backupLoopStarted,
                   uploads>>
    /\ UNCHANGED <<webVars, tempVars>>

\* readConfig's result on the parsed file f; encodeOk: secureCookie.Encode
readConfigResult(f, encodeOk) ==
    IF f.CookieAuthKeyHexStr = NilStr THEN "panic"
    ELSE IF ~HexValid(f.CookieAuthKeyHexStr[1]) THEN "err"
    ELSE IF f.CookieEncrKeyHexStr = NilStr THEN "panic"
    ELSE IF ~HexValid(f.CookieEncrKeyHexStr[1]) THEN "err"
    ELSE IF ~encodeOk THEN "err"
    ELSE "ok"

\* main, lines 403-415
readConfig ==
    /\ mainPc = "readConfig"
    /\ \/ /\ mainPc' = "fatal"            \* ReadFile or Unmarshal failed
          /\ UNCHANGED config
       \/ \E f \in ConfigFiles, encodeOk \in BOOLEAN :
            LET res == readConfigResult(f, encodeOk)
            IN  /\ config' = f
                /\ mainPc' = CASE res = "ok" -> "initStores"
                               [] res = "err" -> "fatal"
                               [] OTHER -> "panicReadConfig"
    /\ UNCHANGED <<inProduction, newArticleTitle, backupLoopStarted, uploads,
                   loadedArticles, newId>>
    /\ UNCHANGED <<webVars, tempVars>>

\* main, lines 417-431: NewStore, buildArticlesCache, NewStoreCrashes, ...
initStores ==
    /\ mainPc = "initStores"
    /\ \E ok \in BOOLEAN :
         mainPc' = IF ok THEN "backupConfig" ELSE "fatal"
    /\ UNCHANGED <<inProduction, newArticleTitle, config, backupLoopStarted,
                   uploads, loadedArticles, newId>>
    /\ UNCHANGED <<webVars, tempVars>>

\* main, lines 433-439: the four fields are dereferenced
makeBackupConfig ==
    /\ mainPc = "backupConfig"
    /\ mainPc' =
         IF \/ config.AwsAccess = NilStr
            \/ config.AwsSecret = NilStr
            \/ config.S3BackupBucket = NilStr
            \/ config.S3BackupDir = NilStr
           THEN "panic"                   \* nil pointer dereference
           ELSE "startBackup"
    /\ UNCHANGED <<inProduction, newArticleTitle, config, backupLoopStarted,
                   uploads, loadedArticles, newId>>
    /\ UNCHANGED <<webVars, tempVars>>

\* main, lines 441-443
startBackup ==
    /\ mainPc = "startBackup"
    /\ backupLoopStarted' = S3BackupEnabled
    /\ mainPc' = "listen"
    /\ UNCHANGED <<inProduction, newArticleTitle, config, uploads,
                   loadedArticles, newId>>
    /\ UNCHANGED <<webVars, tempVars>>

\* main, lines 445-448: http.ListenAndServe is entered
listenAndServe ==
    /\ mainPc = "listen"
    /\ mainPc' = "serving"
    /\ UNCHANGED <<inProduction, newArticleTitle, config, backupLoopStarted,
                   uploads, loadedArticles, newId>>
    /\ UNCHANGED <<webVars, tempVars>>

\* main, lines 448-451: http.ListenAndServe returned, the process exits
serveFailed ==
    /\ mainPc = "serving"
    /\ mainPc' = "exited"
    /\ UNCHANGED <<inProduction, newArticleTitle, config, backupLoopStarted,
                   uploads, loadedArticles, newId>>
    /\ UNCHANGED <<webVars, tempVars>>

\* one cycle of the backup goroutine
BackupLoop ==
    /\ backupLoopStarted
    /\ mainPc \in {"listen", "serving"}
    /\ uploads < MaxUploads
    /\ uploads' = uploads + 1
    /\ UNCHANGED <<mainPc, inProduction, newArticleTitle, config,
                   backupLoopStarted, loadedArticles, newId>>
    /\ UNCHANGED <<webVars, tempVars>>

MainInit ==
    /\ mainPc = "start"
    /\ inProduction = FALSE
    /\ newArticleTitle = <<>>
    /\ config = EmptyConfig
    /\ backupLoopStarted = FALSE
    /\ uploads = 0
    /\ loadedArticles = <<>>
    /\ newId = 0

----------------------------------------------------------------------------
(* The /app/edit handler: form values *)

\* r.FormValue(name), trimmed
getTrimmedFormValue(q, name) == TrimSpace(q.form[name])

FormatHtml == "FormatHtml"
FormatTextile == "FormatTextile"
FormatMarkdown == "FormatMarkdown"
FormatText == "FormatText"
FormatUnknown == "FormatUnknown"

formatNameToId(name) ==
    CASE name = <<"h", "t", "m", "l">> -> FormatHtml
      [] name = <<"t", "e", "x", "t", "i", "l", "e">> -> FormatTextile
      [] name = <<"m", "a", "r", "k", "d", "o", "w", "n">> -> FormatMarkdown
      [] name = <<"t", "e", "x", "t">> -> FormatText
      [] OTHER -> FormatUnknown

\* whether a format id is one of the recognized formats
validFormat(format) ==
    format \in {FormatHtml, FormatTextile, FormatMarkdown, FormatText}

checkboxToBool(checkboxVal) == <<"o", "n">> = checkboxVal

\* strings.Split(s, ","), with cur the item being read
RECURSIVE SplitComma(_, _)
SplitComma(s, cur) ==
    IF Len(s) = 0 THEN <<cur>>
    ELSE IF s[1] = "," THEN <<cur>> \o SplitComma(Tail(s), <<>>)
    ELSE SplitComma(Tail(s), Append(cur, s[1]))

tagsFromString(s) ==
    LET tags == SplitComma(s, <<>>)
    IN  [i \in 1..Len(tags) |-> TrimSpace(tags[i])]

IsDigit(c) == c \in {"0", "1", "2", "3", "4", "5", "6", "7", "8", "9"}

DigitVal(c) ==
    CASE c = "0" -> 0 [] c = "1" -> 1 [] c = "2" -> 2 [] c = "3" -> 3
      [] c = "4" -> 4 [] c = "5" -> 5 [] c = "6" -> 6 [] c = "7" -> 7
      [] c = "8" -> 8 [] c = "9" -> 9

RECURSIVE ParseDigits(_, _)
ParseDigits(s, acc) ==
    IF Len(s) = 0 THEN acc
    ELSE ParseDigits(Tail(s), acc * 10 + DigitVal(s[1]))

\* strconv.Atoi, on strings short enough not to overflow
Atoi(s) ==
    LET signed == Len(s) > 0 /\ s[1] \in {"+", "-"}
        digits == IF signed THEN Tail(s) ELSE s
    IN  IF Len(digits) = 0 \/ \E i \in 1..Len(digits) : ~IsDigit(digits[i])
          THEN [err |-> TRUE, val |-> 0]
          ELSE [err |-> FALSE,
                val |-> IF signed /\ s[1] = "-"
                          THEN 0 - ParseDigits(digits, 0)
                          ELSE ParseDigits(digits, 0)]

----------------------------------------------------------------------------
(* The store and the articles cache *)

\* the goroutines serving requests
Requests == {1, 2}

\* addresses of Article objects: the initial one and one per request
Addrs == 1..(1 + MaxRequests)

\* store.GetArticleById: the stored object with that id, or nil (0)
GetArticleById(articleId) ==
    LET found == {i \in 1..Len(storeArticles) :
                    heap[storeArticles[i]].Id = articleId}
    IN  IF found = {} THEN 0
        ELSE storeArticles[CHOOSE i \in found : \A j \in found : i <= j]

\* the index: a snapshot of the articles that are not deleted, by id
BuildCache(h, stored, gen) ==
    LET live == {a \in Range(stored) : ~h[a].IsDeleted}
    IN  [gen |-> gen, articles |-> {h[a] : a \in live}]

\* IsAdmin(r): decided by the request's cookie
IsAdmin(q) == q.admin

\* handleAppEdit without the check of lines 120-123
handleAppEditRoute_NoAdminCheck(q) ==
    IF q.method = "POST" THEN "createNewOrUpdatePost" ELSE "editForm"

\* handleAppEdit, lines 119-139: where the request goes
handleAppEditRoute(q) ==
    IF ~IsAdmin(q) THEN "serve404"
    ELSE IF q.method = "POST" THEN "createNewOrUpdatePost"
    ELSE "editForm"

\* handleAppEdit, lines 130-134: the article the request names, or nil (0)
requestedArticle(q) ==
    LET parsed == Atoi(getTrimmedFormValue(q, "article_id"))
    IN  IF ~parsed.err THEN GetArticleById(parsed.val) ELSE 0

\* line 70 off by one: a body of exactly 10 is refused
bodyTooSmall_OffByOne(body) == Len(body) <= 10

\* createNewOrUpdatePost, line 70
bodyTooSmall(body) == Len(body) < 10

\* createNewOrUpdatePost, lines 59-73: the error served, "" if none
validationError(q) ==
    IF ~validFormat(formatNameToId(getTrimmedFormValue(q, "format")))
      THEN "invalid format"
    ELSE IF getTrimmedFormValue(q, "title") = <<>>
      THEN "empty title not valid"
    ELSE IF bodyTooSmall(getTrimmedFormValue(q, "note"))
      THEN "body too small"
    ELSE ""

\* lines 91-94 without the test: every edit refreshes the date
updatePublishedOn_Always(q) == TRUE

\* createNewOrUpdatePost, lines 91-92
updatePublishedOn(q) ==
    checkboxToBool(getTrimmedFormValue(q, "update_published_on"))

NoRequest == [admin |-> FALSE, method |-> "", form |-> <<>>]

Log(r, call) == [calls EXCEPT ![r] = Append(@, call)]

----------------------------------------------------------------------------
(* The /app/edit handler: steps *)

\* a request q arrives and handleAppEdit runs up to its first call that
\* writes: lines 119-139 and, for a POST, lines 59-75
handleAppEdit(r, Inputs) ==
    /\ pc[r] = "idle"
    /\ handled < MaxRequests
    /\ \E q \in Inputs :
         LET route == handleAppEditRoute(q)
             found == requestedArticle(q)
             error == validationError(q)
         IN  /\ req' = [req EXCEPT ![r] = q]
             /\ before' = [before EXCEPT ![r] =
                             IF route # "serve404" /\ found # 0
                               THEN <<heap[found]>> ELSE <<>>]
             /\ article' = [article EXCEPT ![r] =
                              IF route = "serve404" THEN 0 ELSE found]
             /\ CASE route = "serve404" ->
                       /\ response' = [response EXCEPT ![r] = "404"]
                       /\ pc' = [pc EXCEPT ![r] = "done"]
                  [] route = "editForm" ->
                       \* GetArticleVersionBody may fail: panic
                       /\ \E res \in {"editForm"} \cup
                                     (IF found # 0 THEN {"panic"} ELSE {}) :
                            response' = [response EXCEPT ![r] = res]
                       /\ pc' = [pc EXCEPT ![r] = "done"]
                  [] OTHER ->
                       IF error # ""
                         THEN /\ response' = [response EXCEPT ![r] = error]
                              /\ pc' = [pc EXCEPT ![r] = "done"]
                         ELSE /\ UNCHANGED response
                              /\ pc' = [pc EXCEPT ![r] = "L77"]
    /\ handled' = handled + 1
    /\ clock' = clock + 1
    /\ UNCHANGED <<storeVars, text, versionsRead, calls, persistedAt>>
    /\ UNCHANGED <<mainVars, tempVars>>

\* store.CreateNewText succeeding: a new Text, its blob written
CreateNewText(r) ==
    /\ nTexts' = nTexts + 1
    /\ text' = [text EXCEPT ![r] = nTexts + 1]

\* store.CreateOrUpdateArticle succeeding on the article of handler r: a
\* new article gets the smallest free id and joins the store, and the
\* record is persisted
CreateOrUpdateArticle(r) ==
    LET a == article[r]
        stored == [i \in 1..Len(storeArticles) |-> heap[storeArticles[i]]]
        id == IF heap[a].Id = 0 THEN findUniqueArticleId(stored)
              ELSE heap[a].Id
        rec == [heap[a] EXCEPT !.Id = id]
    IN  /\ heap' = [heap EXCEPT ![a] = rec]
        /\ storeArticles' = IF heap[a].Id = 0
                              THEN Append(storeArticles, a)
                              ELSE storeArticles
        /\ disk' = (id :> rec) @@ disk
        /\ nWrites' = nWrites + 1
        /\ persistedAt' = [persistedAt EXCEPT ![r] = nWrites + 1]

\* clearArticlesCache: the index is rebuilt from the store
clearArticlesCache ==
    articlesCache' = BuildCache(heap, storeArticles, nWrites)

\* lines 78-82 left out: the error of store.CreateNewText is ignored
createText_IgnoreError(r) ==
    /\ pc[r] = "L77"
    /\ \/ /\ CreateNewText(r)
          /\ calls' = Log(r, "CreateNewText")
       \/ /\ calls' = Log(r, "CreateNewText failed")
          /\ UNCHANGED <<nTexts, text>>
    /\ pc' = [pc EXCEPT ![r] = "L83"]
    /\ UNCHANGED <<heap, storeArticles, disk, nWrites, articlesCache, clock,
                   req, article, versionsRead, response, before, persistedAt,
                   handled>>
    /\ UNCHANGED <<mainVars, tempVars>>

\* createNewOrUpdatePost, lines 77-82: store.CreateNewText
createText(r) ==
    /\ pc[r] = "L77"
    /\ \/ /\ CreateNewText(r)
          /\ calls' = Log(r, "CreateNewText")
          /\ pc' = [pc EXCEPT ![r] = "L83"]
          /\ UNCHANGED response
       \/ /\ calls' = Log(r, "CreateNewText failed")
          /\ response' = [response EXCEPT ![r] = "error creating text"]
          /\ pc' = [pc EXCEPT ![r] = "done"]
          /\ UNCHANGED <<nTexts, text>>
    /\ UNCHANGED <<heap, storeArticles, disk, nWrites, articlesCache, clock,
                   req, article, versionsRead, before, persistedAt, handled>>
    /\ UNCHANGED <<mainVars, tempVars>>

\* the Article of lines 84-88
NewArticle ==
    [Id |-> 0, PublishedOn |-> clock, Versions |-> <<>>, Title |-> <<>>,
     Tags |-> <<>>, IsPrivate |-> FALSE, IsDeleted |-> FALSE]

\* createNewOrUpdatePost, lines 83-90: a nil article is replaced by a new
\* one, and append() reads article.Versions
readVersions(r) ==
    /\ pc[r] = "L83"
    /\ IF article[r] = 0
         THEN LET a == CHOOSE x \in Addrs \ DOMAIN heap :
                         \A y \in Addrs \ DOMAIN heap : x <= y
              IN  /\ heap' = heap @@ (a :> NewArticle)
                  /\ article' = [article EXCEPT ![r] = a]
                  /\ versionsRead' = [versionsRead EXCEPT ![r] = <<>>]
         ELSE /\ versionsRead' =
                   [versionsRead EXCEPT ![r] = heap[article[r]].Versions]
              /\ UNCHANGED <<heap, article>>
    /\ pc' = [pc EXCEPT ![r] = "L90"]
    /\ UNCHANGED <<storeArticles, disk, nWrites, nTexts, articlesCache, clock,
                   req, text, response, calls, before, persistedAt, handled>>
    /\ UNCHANGED <<mainVars, tempVars>>

\* createNewOrUpdatePost, line 90: the appended slice is stored
appendVersion(r) ==
    /\ pc[r] = "L90"
    /\ heap' = [heap EXCEPT ![article[r]].Versions =
                  Append(versionsRead[r], text[r])]
    /\ pc' = [pc EXCEPT ![r] = "L91"]
    /\ UNCHANGED <<storeArticles, disk, nWrites, nTexts, articlesCache, clock,
                   req, article, text, versionsRead, response, calls, before,
                   persistedAt, handled>>
    /\ UNCHANGED <<mainVars, tempVars>>

\* createNewOrUpdatePost, lines 91-98
setFields(r) ==
    /\ pc[r] = "L91"
    /\ heap' = [heap EXCEPT ![article[r]] =
                  [@ EXCEPT
                     !.PublishedOn =
                        IF updatePublishedOn(req[r]) THEN clock ELSE @,
                     !.Title = getTrimmedFormValue(req[r], "title"),
                     !.IsPrivate = checkboxToBool(
                        getTrimmedFormValue(req[r], "private_checkbox")),
                     !.IsDeleted = FALSE,
                     !.Tags = tagsFromString(
                        getTrimmedFormValue(req[r], "tags"))]]
    /\ pc' = [pc EXCEPT ![r] = "L99"]
    /\ UNCHANGED <<storeArticles, disk, nWrites, nTexts, articlesCache, clock,
                   req, article, text, versionsRead, response, calls, before,
                   persistedAt, handled>>
    /\ UNCHANGED <<mainVars, tempVars>>

\* createNewOrUpdatePost, lines 99-103: store.CreateOrUpdateArticle
persistArticle(r) ==
    /\ pc[r] = "L99"
    /\ \/ /\ CreateOrUpdateArticle(r)
          /\ calls' = Log(r, "CreateOrUpdateArticle")
          /\ pc' = [pc EXCEPT ![r] = "L104"]
          /\ UNCHANGED response
       \/ /\ calls' = Log(r, "CreateOrUpdateArticle failed")
          /\ response' = [response EXCEPT ![r] = "error creating article"]
          /\ pc' = [pc EXCEPT ![r] = "done"]
          /\ UNCHANGED <<heap, storeArticles, disk, nWrites, persistedAt>>
    /\ UNCHANGED <<nTexts, articlesCache, clock, req, article, text,
                   versionsRead, before, handled>>
    /\ UNCHANGED <<mainVars, tempVars>>

\* line 104 left out: the write is acknowledged with the index as it was
invalidateIndex_Skipped(r) ==
    /\ pc[r] = "L104"
    /\ pc' = [pc EXCEPT ![r] = "L105"]
    /\ calls' = Log(r, "clearArticlesCache")
    /\ UNCHANGED <<storeVars, clock, req, article, text, versionsRead,
                   response, before, persistedAt, handled>>
    /\ UNCHANGED <<mainVars, tempVars>>

\* createNewOrUpdatePost, line 104
invalidateIndex(r) ==
    /\ pc[r] = "L104"
    /\ clearArticlesCache
    /\ calls' = Log(r, "clearArticlesCache")
    /\ pc' = [pc EXCEPT ![r] = "L105"]
    /\ UNCHANGED <<heap, storeArticles, disk, nWrites, nTexts, clock, req,
                   article, text, versionsRead, response, before, persistedAt,
                   handled>>
    /\ UNCHANGED <<mainVars, tempVars>>

\* createNewOrUpdatePost, lines 105-106: the write is acknowledged
redirect(r) ==
    /\ pc[r] = "L105"
    /\ response' = [response EXCEPT ![r] = "redirect"]
    /\ pc' = [pc EXCEPT ![r] = "done"]
    /\ UNCHANGED <<storeVars, clock, req, article, text, versionsRead, calls,
                   before, persistedAt, handled>>
    /\ UNCHANGED <<mainVars, tempVars>>

\* the handler returns; an Article that never reached the store is garbage
finish(r) ==
    /\ pc[r] = "done"
    /\ pc' = [pc EXCEPT ![r] = "idle"]
    /\ req' = [req EXCEPT ![r] = NoRequest]
    /\ article' = [article EXCEPT ![r] = 0]
    /\ text' = [text EXCEPT ![r] = 0]
    /\ versionsRead' = [versionsRead EXCEPT ![r] = <<>>]
    /\ response' = [response EXCEPT ![r] = ""]
    /\ calls' = [calls EXCEPT ![r] = <<>>]
    /\ before' = [before EXCEPT ![r] = <<>>]
    /\ persistedAt' = [persistedAt EXCEPT ![r] = 0]
    /\ heap' = [a \in {x \in DOMAIN heap :
                         x \in Range(storeArticles) \/ x # article[r]}
                  |-> heap[a]]
    /\ UNCHANGED <<storeArticles, disk, nWrites, nTexts, articlesCache, clock,
                   handled>>
    /\ UNCHANGED <<mainVars, tempVars>>

----------------------------------------------------------------------------
(* Requests the model sends *)

On == <<"o", "n">>
Body10 == <<"a", "b", "c", "d", "e", "f", "g", "h", "i", "j">>
Body9 == SubSeq(Body10, 1, 9)
Html == <<"h", "t", "m", "l">>
Textile == <<"t", "e", "x", "t", "i", "l", "e">>
Markdown == <<"m", "a", "r", "k", "d", "o", "w", "n">>
PlainText == <<"t", "e", "x", "t">>
Rtf == <<"r", "t", "f">>

\* every kind of request to /app/edit
AllInputs ==
    [admin : BOOLEAN,
     method : {"GET", "POST"},
     form : [format : {Html, Textile, Markdown, PlainText, Rtf,
                       <<" ">> \o Html \o <<" ">>},
             title : {<<" ">>, <<" ", "T">>},
             note : {Body9, <<" ">> \o Body9, Body10},
             private_checkbox : {On, <<>>},
             tags : {<<"a", ",", " ", "b">>},
             update_published_on : {On, <<>>},
             article_id : {<<"1">>, <<>>}]]

\* the submissions of an administrator editing or creating an article
EditInputs ==
    [admin : {TRUE},
     method : {"POST"},
     form : [format : {Markdown, Rtf},
             title : {<<"T">>},
             note : {Body10},
             private_checkbox : {On},
             tags : {<<"a">>},
             update_published_on : {On, <<>>},
             article_id : {<<"1">>, <<>>}]]

----------------------------------------------------------------------------
(* The cache of temporary allocations: temp_alloc.c *)

\* A pointer is 0 (NULL) or the number of a block.  A key is the address of
\* the caller's pointer variable.  slots holds the entries of keys_start[]
\* and allocs_info[] that a call has written, by index (from 0); the other
\* entries below keys_end hold whatever realloc() left there.

ENTRIES_START_COUNT == 128

Keys == 1..NumKeys
Sizes == 0..MaxSize
\* values of currstacktop: below, between and above the keys
StackTops == 1..(NumKeys + 1)

NoSlots == [i \in {} |-> 0]

TempInit ==
    /\ tempPc = "running"
    /\ slots = NoSlots
    /\ keysLen = 0
    /\ keys_alloced = 0
    /\ total_alloced = 0
    /\ total_allocs = 0
    /\ allocs_from_cache = 0
    /\ blocks = {}
    /\ ret = 0
    /\ keyOut = 0
    /\ copied = 0
    /\ assertion = "none"
    /\ nCalls = 0

MinOf(S) == CHOOSE x \in S : \A y \in S : x <= y

\* the written entries whose key is k
KeyIndexes(k) == {i \in DOMAIN slots : slots[i].key = k}

\* lines 50-56: where the linear search for k stops (keysLen: not found),
\* when no entry it read on the way compared equal to k by accident
SearchEnd(k) ==
    IF KeyIndexes(k) # {} THEN MinOf(KeyIndexes(k)) ELSE keysLen

\* the entries below index n that no call has written: line 69 puts
\* keys_end at keys_start + keys_alloced, so the loops run over them too
Unwritten(n) == (0..(n - 1)) \ DOMAIN slots

\* malloc() when it succeeds: a block that is not in use
NewBlock == CHOOSE b \in 1..(Cardinality(blocks) + 1) : b \notin blocks

\* the loops read an entry that was never written (the last one lies past
\* the end of the array): what follows is not defined and is not followed
undefinedBehaviour ==
    /\ tempPc' = "undefined"
    /\ nCalls' = nCalls + 1
    /\ UNCHANGED <<ndebug, slots, keysLen, keys_alloced, total_alloced,
                   total_allocs, allocs_from_cache, blocks, ret, keyOut,
                   copied, assertion>>

temp_alloc_helper(size, k, copyold) ==
    /\ tempPc = "running"
    /\ nCalls < MaxTempCalls
    /\ UNCHANGED <<mainVars, webVars>>
    /\ LET found == KeyIndexes(k) # {}
           keys_count == keysLen
           grow == ~found /\ keys_alloced <= keys_count
           new_keys_alloced ==
               IF 0 = keys_alloced * 2 THEN ENTRIES_START_COUNT
                                       ELSE keys_alloced * 2
           idx == SearchEnd(k)
           old_mem == IF found THEN slots[idx].mem ELSE 0
           old_size == IF old_mem # 0 THEN slots[idx].size ELSE 0
           reuse == old_mem # 0 /\ old_size > size /\ old_size < 2 * size
       IN  \/ \* an unwritten entry was read by the search and matched
              /\ Unwritten(idx) # {}
              /\ undefinedBehaviour
           \/ \* realloc() failed while growing the arrays: line 73 writes
              \* through a null pointer
              /\ grow
              /\ undefinedBehaviour
           \/ \E mallocOk \in BOOLEAN :
                LET mem == IF mallocOk THEN NewBlock ELSE 0
                    holds == total_alloced >= size
                    to_copy == IF old_size > size THEN size ELSE old_size
                IN  /\ nCalls' = nCalls + 1
                    /\ keys_alloced' =
                         IF grow THEN new_keys_alloced ELSE keys_alloced
                    /\ keysLen' =
                         IF found THEN keysLen
                         ELSE (IF grow THEN new_keys_alloced ELSE keysLen) + 1
                    /\ UNCHANGED ndebug
                    /\ IF reuse
                         THEN /\ keyOut' = old_mem
                              /\ allocs_from_cache' = allocs_from_cache + 1
                              /\ ret' = 1
                              /\ copied' = 0
                              /\ assertion' = "none"
                              /\ UNCHANGED <<tempPc, slots, total_alloced,
                                             total_allocs, blocks>>
                       ELSE
                         /\ slots' = (idx :> [key |-> k, mem |-> mem,
                                              size |-> size]) @@ slots
                         /\ keyOut' = mem
                         /\ UNCHANGED allocs_from_cache
                         /\ IF mem = 0
                              THEN /\ ret' = 0
                                   /\ copied' = 0
                                   /\ assertion' = "none"
                                   /\ UNCHANGED <<tempPc, total_alloced,
                                                  total_allocs, blocks>>
                            ELSE IF ~ndebug /\ ~holds
                              THEN /\ tempPc' = "aborted"     \* line 97
                                   /\ assertion' = "failed"
                                   /\ blocks' = blocks \cup {mem}
                                   /\ UNCHANGED <<total_alloced, total_allocs,
                                                  ret, copied>>
                            ELSE /\ assertion' =
                                      IF ndebug THEN "none" ELSE "held"
                                 /\ total_alloced' = total_alloced + size
                                 /\ total_allocs' = total_allocs + 1
                                 /\ copied' = IF old_mem # 0 /\ copyold # 0
                                                THEN to_copy ELSE 0
                                 /\ blocks' = (blocks \cup {mem}) \ {old_mem}
                                 /\ ret' = 1
                                 /\ UNCHANGED tempPc

temp_alloc ==
    \E size \in Sizes, k \in Keys : temp_alloc_helper(size, k, 0)

temp_realloc ==
    \E size \in Sizes, k \in Keys : temp_alloc_helper(size, k, 1)

\* the loop of temp_freeall_helper over the written entries todo, in the
\* order of their indexes; st: slots, total_alloced, blocks, assertion
RECURSIVE FreeEntries(_, _, _)
FreeEntries(todo, st, currstacktop) ==
    IF todo = {} THEN st
    ELSE LET i == MinOf(todo)
             mi_curr == st.slots[i]
         IN  IF currstacktop > mi_curr.key /\ mi_curr.mem # 0
               THEN LET freed == [st EXCEPT !.slots[i].mem = 0,
                                            !.blocks = @ \ {mi_curr.mem}]
                    IN  IF ~ndebug /\ ~(st.total_alloced >= mi_curr.size)
                          THEN [freed EXCEPT !.assertion = "failed"]
                        ELSE FreeEntries(todo \ {i},
                               [freed EXCEPT
                                  !.total_alloced = @ - mi_curr.size,
                                  !.assertion =
                                      IF ndebug THEN @ ELSE "held"],
                               currstacktop)
             ELSE FreeEntries(todo \ {i}, st, currstacktop)

temp_freeall_helper(currstacktop) ==
    /\ tempPc = "running"
    /\ nCalls < MaxTempCalls
    /\ UNCHANGED <<mainVars, webVars>>
    /\ \/ \* an unwritten entry was read by the loop and taken for a block
          /\ Unwritten(keysLen) # {}
          /\ undefinedBehaviour
       \/ LET st == FreeEntries(DOMAIN slots,
                      [slots |-> slots, total_alloced |-> total_alloced,
                       blocks |-> blocks, assertion |-> "none"],
                      currstacktop)
          IN  /\ slots' = st.slots
              /\ total_alloced' = st.total_alloced
              /\ blocks' = st.blocks
              /\ assertion' = st.assertion
              /\ tempPc' = IF st.assertion = "failed" THEN "aborted"
                                                      ELSE "running"
              /\ nCalls' = nCalls + 1
              /\ UNCHANGED <<ndebug, keysLen, keys_alloced, total_allocs,
                             allocs_from_cache, ret, keyOut, copied>>

temp_freeall ==
    \E currstacktop \in StackTops : temp_freeall_helper(currstacktop)

----------------------------------------------------------------------------
(* Specifications *)

\* the article the server starts with
FirstArticle ==
    [Id |-> 1, PublishedOn |-> 0, Versions |-> <<1>>, Title |-> <<"O">>,
     Tags |-> <<>>, IsPrivate |-> FALSE, IsDeleted |-> FALSE]

WebInit ==
    /\ heap = (1 :> FirstArticle)
    /\ storeArticles = <<1>>
    /\ disk = (1 :> FirstArticle)
    /\ nWrites = 1
    /\ nTexts = 1
    /\ articlesCache = BuildCache((1 :> FirstArticle), <<1>>, 1)
    /\ clock = 0
    /\ pc = [r \in Requests |-> "idle"]
    /\ req = [r \in Requests |-> NoRequest]
    /\ article = [r \in Requests |-> 0]
    /\ text = [r \in Requests |-> 0]
    /\ versionsRead = [r \in Requests |-> <<>>]
    /\ response = [r \in Requests |-> ""]
    /\ calls = [r \in Requests |-> <<>>]
    /\ before = [r \in Requests |-> <<>>]
    /\ persistedAt = [r \in Requests |-> 0]
    /\ handled = 0

\* main() has reached http.ListenAndServe, backups disabled
MainServing ==
    /\ mainPc = "serving"
    /\ inProduction = FALSE
    /\ newArticleTitle = <<>>
    /\ config = [EmptyConfig EXCEPT
                   !.CookieAuthKeyHexStr = PtrTo(<<"a", "b">>),
                   !.CookieEncrKeyHexStr = PtrTo(<<"a", "b">>),
                   !.AwsAccess = PtrTo(<<>>),
                   !.AwsSecret = PtrTo(<<>>),
                   !.S3BackupBucket = PtrTo(<<>>),
                   !.S3BackupDir = PtrTo(<<>>)]
    /\ backupLoopStarted = FALSE
    /\ uploads = 0
    /\ loadedArticles = <<>>
    /\ newId = 0

\* the server: handlers run concurrently
Init == MainServing /\ WebInit /\ ndebug = FALSE /\ TempInit

Next ==
    \E r \in Requests :
        \/ handleAppEdit(r, EditInputs)
        \/ createText(r)
        \/ readVersions(r)
        \/ appendVersion(r)
        \/ setFields(r)
        \/ persistArticle(r)
        \/ invalidateIndex(r)
        \/ redirect(r)
        \/ finish(r)

Spec == Init /\ [][Next]_vars

\* the server receiving one request at a time, of every kind
NextSeq ==
    \/ handleAppEdit(1, AllInputs)
    \/ createText(1)
    \/ readVersions(1)
    \/ appendVersion(1)
    \/ setFields(1)
    \/ persistArticle(1)
    \/ invalidateIndex(1)
    \/ redirect(1)
    \/ finish(1)

SpecSeq == Init /\ [][NextSeq]_vars

\* process startup
InitMain == MainInit /\ WebInit /\ ndebug = FALSE /\ TempInit

NextMain ==
    \/ parseCmdLineArgs
    \/ genNewArticle
    \/ readConfig
    \/ initStores
    \/ makeBackupConfig
    \/ startBackup
    \/ listenAndServe
    \/ serveFailed
    \/ BackupLoop

SpecMain == InitMain /\ [][NextMain]_vars

\* a program that uses the cache of temporary allocations, built with or
\* without NDEBUG
InitTemp == MainServing /\ WebInit /\ ndebug \in BOOLEAN /\ TempInit

NextTemp ==
    \/ temp_alloc
    \/ temp_realloc
    \/ temp_freeall

SpecTemp == InitTemp /\ [][NextTemp]_vars

----------------------------------------------------------------------------
(* Properties *)

IsPrefix(s, t) == Len(s) <= Len(t) /\ SubSeq(t, 1, Len(s)) = s

\* the smallest positive integer that is not in the set S
SmallestFree(S) ==
    CHOOSE n \in 1..(Cardinality(S) + 1) :
        n \notin S /\ \A m \in 1..(n - 1) : m \in S

LoadedIds == {loadedArticles[i].Id : i \in 1..Len(loadedArticles)}

\* C1: for a list of distinct positive ids, findUniqueArticleId returns the
\* smallest positive integer that is not among them.
C1_SmallestFreeId ==
    (newId # 0 /\ Cardinality(LoadedIds) = Len(loadedArticles))
        => newId = SmallestFree(LoadedIds)

\* one of the four backup fields of the configuration is absent or empty
BackupFieldMissing ==
    \E f \in {"AwsAccess", "AwsSecret", "S3BackupBucket", "S3BackupDir"} :
        config[f] = NilStr \/ config[f] = PtrTo(<<>>)

\* C4: with a backup field absent or empty, startup does not fail on it and
\* the backup loop is never started, so no upload is attempted.
C4_MissingFieldNotFatal ==
    BackupFieldMissing
        => (mainPc # "panic" /\ ~backupLoopStarted /\ uploads = 0)

\* a submission that passes the checks of createNewOrUpdatePost: a
\* recognized format, a title and a body of at least 10 after trimming
ValidSubmission(form) ==
    /\ TrimSpace(form.format) \in {Html, Textile, Markdown, PlainText}
    /\ Len(TrimSpace(form.title)) > 0
    /\ Len(TrimSpace(form.note)) >= 10

ValidationErrors ==
    {"invalid format", "empty title not valid", "body too small"}

\* C2: an administrator's POST goes on to store.CreateNewText exactly when
\* the submission is valid; a rejected one ends with an error response and
\* has written no blob, called nothing and changed neither store nor index.
C2_ValidationGate ==
    [][\A r \in Requests :
         /\ (pc[r] = "idle" /\ pc'[r] # "idle"
               /\ req'[r].admin /\ req'[r].method = "POST")
              => /\ (pc'[r] = "L77") <=> ValidSubmission(req'[r].form)
                 /\ pc'[r] # "L77"
                      => /\ pc'[r] = "done"
                         /\ response'[r] \in ValidationErrors
                         /\ calls'[r] = <<>>
                         /\ UNCHANGED storeVars
         /\ calls[r] # <<>> => ValidSubmission(req[r].form)
         /\ response[r] \in ValidationErrors
              => pc[r] = "done" /\ calls[r] = <<>>
      ]_vars

\* a body of exactly 10 characters was accepted and its blob written
C2_Witness ==
    \E r \in Requests :
        /\ pc[r] = "L83"
        /\ req[r].form.note = Body10
        /\ calls[r] = <<"CreateNewText">>
        /\ nTexts = 2

\* C3: when store.CreateOrUpdateArticle fails during an edit, the article
\* GetArticleById returned is as it was before the attempt and the index
\* is not invalidated.
C3_FailedPersistInvisible ==
    \A r \in Requests :
        (response[r] = "error creating article" /\ before[r] # <<>>)
            => /\ heap[article[r]] = before[r][1]
               /\ \A i \in 1..Len(calls[r]) :
                    calls[r][i] # "clearArticlesCache"

\* C5: two edits of the same existing article that were both acknowledged
\* have both left their version in the article.
C5_BothVersionsRecorded ==
    \A r1, r2 \in Requests :
        (/\ r1 # r2
         /\ response[r1] = "redirect" /\ response[r2] = "redirect"
         /\ before[r1] # <<>> /\ article[r1] = article[r2])
            => /\ text[r1] \in Range(heap[article[r1]].Versions)
               /\ text[r2] \in Range(heap[article[r1]].Versions)
               /\ Len(heap[article[r1]].Versions)
                    >= Len(before[r1][1].Versions) + 2

\* C6: when store.CreateNewText fails the handler ends with an error
\* response, having recorded no version and changed neither the article,
\* the store nor the index, and store.CreateOrUpdateArticle is not called.
C6_BlobFailure ==
    [][\A r \in Requests :
         /\ (pc[r] = "L77" /\ pc'[r] # "L77" /\ text'[r] = 0)
              => /\ pc'[r] = "done"
                 /\ response'[r] = "error creating text"
                 /\ UNCHANGED storeVars
         /\ (pc[r] = "idle" /\ pc'[r] = "L77") => UNCHANGED storeVars
         /\ response[r] = "error creating text"
              => pc[r] = "done" /\ calls[r] = <<"CreateNewText failed">>
      ]_vars

\* an edit of the stored article whose blob could not be written
C6_Witness ==
    \E r \in Requests :
        /\ response[r] = "error creating text"
        /\ before[r] # <<>>
        /\ heap[article[r]] = before[r][1]

\* C7: versions only grows at its end: no step removes, replaces or
\* reorders an entry, and an article in the store has a version.
C7_VersionsMonotone ==
    [][/\ \A a \in DOMAIN heap \cap DOMAIN heap' :
            IsPrefix(heap[a].Versions, heap'[a].Versions)
       /\ \A a \in Range(storeArticles) : Len(heap[a].Versions) > 0
      ]_vars

\* the request did not ask for a new publish date
NoBump(q) == TrimSpace(q.form.update_published_on) # On

\* C8: publishedOn of a stored article changes only in lines 91-98 of an
\* edit that asked for it; no step of an edit that did not ask changes it.
C8_PublishDateStable ==
    [][/\ \A a \in Range(storeArticles) :
            heap'[a].PublishedOn # heap[a].PublishedOn
                => \E r \in Requests :
                      /\ pc[r] = "L91" /\ pc'[r] = "L99"
                      /\ article[r] = a
                      /\ ~NoBump(req[r])
       /\ \A r \in Requests :
            (/\ pc'[r] # pc[r] /\ pc[r] # "idle"
             /\ article[r] \in Range(storeArticles)
             /\ NoBump(req[r]))
                => heap'[article[r]].PublishedOn
                     = heap[article[r]].PublishedOn
      ]_vars

\* an acknowledged edit without a bump: the date is the old one, versions grew
C8_Witness ==
    \E r \in Requests :
        /\ response[r] = "redirect"
        /\ before[r] # <<>>
        /\ NoBump(req[r])
        /\ heap[article[r]].PublishedOn = before[r][1].PublishedOn
        /\ Len(heap[article[r]].Versions) > Len(before[r][1].Versions)
        /\ text[r] \in Range(heap[article[r]].Versions)

C10_AdminBeforeWrite ==
    [][\A r \in Requests :
         /\ (pc[r] = "idle" /\ pc'[r] # "idle" /\ ~req'[r].admin)
              => /\ pc'[r] = "done"
                 /\ response'[r] = "404"
                 /\ calls'[r] = <<>>
                 /\ UNCHANGED storeVars
         /\ (pc[r] # "idle" /\ ~req[r].admin)
              => pc[r] = "done" /\ calls[r] = <<>>
      ]_vars

\* a valid POST that is not the administrator's was answered 404
C10_Witness ==
    \E r \in Requests :
        /\ pc[r] = "done"
        /\ ~req[r].admin
        /\ req[r].method = "POST"
        /\ ValidSubmission(req[r].form)
        /\ response[r] = "404"
        /\ storeArticles = <<1>> /\ nTexts = 1

\* C11: for every list of articles, unsorted lists and lists in which two
\* articles share an id included, the id findUniqueArticleId returns is
\* positive and is not the id of an article in the list.
C11_ReturnedIdNotInUse ==
    newId # 0 => (newId > 0 /\ newId \notin LoadedIds)

\* C12: assert(total_alloced >= mi->size) holds every time it is reached,
\* for any sequence of temp_alloc, temp_realloc and temp_freeall_helper
\* calls from the initial state, the first successful allocation and the
\* reallocation of a key to a different size included.
C12_AssertionHolds ==
    assertion # "failed"

============================================================================
